---- MODULE Spec2Model ----
(***************************************************************************)
(* State-machine model of src/proof/supernova.rs: the recursive proving    *)
(* session `prove_recursively` (sequential fold loop, and the parallel     *)
(* mode with the background witness-caching producer running inside a      *)
(* crossbeam scope), and `Proof::verify`.                                  *)
(*                                                                         *)
(* A step (a C1LEM multiframe) is represented by its program counter, the  *)
(* shape selector; its cached witness is the flag cached[k].  Vectors of   *)
(* field elements (z0, zi) are one-element tuples over a small field.      *)
(* Calls into the folding library (RecursiveSNARK::new, prove_step,        *)
(* cache_witness) return Ok or Err nondeterministically.                   *)
(***************************************************************************)
EXTENDS Integers, Sequences, FiniteSets, TLC

\* Bounds of the model
MaxSteps == 3
FieldP == 3
NumWorkers == 2
MaxCoprocessors == 1
MaxRc == 2

\* The shape family of the sessions explored: 0 = Identity (the default
\* shape), 1 = Increment.
Shapes == {0, 1}
Field == 0..(FieldP - 1)

VARIABLES
    steps,                   \* input: the step sequence (shape selector of each step)
    z0,                      \* input: the global initial public input
    parallel,                \* lurk_config(..).perf.parallelism.recursive_steps.is_parallel()
    recursive_snark_option,  \* <<>> is None, <<rs>> is Some(rs)
    recursive_snark,         \* the local of the prove_step closure (<<>> outside it)
    mainPc,                  \* position of the calling thread
    i,                       \* index of the fold loop
    cc,                      \* the is_zero_pc flags of the wrapped steps (<<>> before wrapping)
    holder,                  \* holder[k]: who holds the Mutex of step k
    poisoned,                \* poisoned[k]: a thread panicked while holding the Mutex of step k
    cached,                  \* cached[k]: cache_witness has stored the witness of step k
    prodPc,                  \* position of the spawned producer thread
    prodIdx,                 \* index of the producer's sequential iterator
    parTask,                 \* parTask[k]: state of the rayon job of step k
    result,                  \* what prove_recursively gave its caller
    started,                 \* history: indices for which prove_step was entered
    ops,                     \* history: accumulator operations performed
    witSrc,                  \* history: where the fold of step k found its witness
    cacheCalls,              \* history: number of cache_witness calls on step k
    witFailed,               \* history: steps whose cache_witness returned Err
    foldFailedAt,            \* history: <<>> or <<k>>, the step the folding scheme rejected
    verifyOut,               \* <<>> or <<[z0, zi, res]>>: the last call of verify
    held,                    \* the proof the caller owns: <<>> (none) or <<proof>>
    proverCalls,             \* history: number of calls of CompressedSNARK::prove
    compressOut,             \* <<>> or <<[before, tag, after, prover]>>: the last call of compress
    keyCfg,                  \* <<>> or <<cfg>>: a FoldingConfig, its Lang and a step size
    numOut,                  \* <<>> or <<n>>: what num_circuits() returned
    keysOut,                 \* <<>> or <<keys>>: what circuit_cache_keys returned
    keyLog                   \* the calls of circuit_cache_key made: [rc, index, key]

vars == <<steps, z0, parallel, recursive_snark_option, recursive_snark, mainPc, i, cc,
          holder, poisoned, cached, prodPc, prodIdx, parTask, result, started, ops,
          witSrc, cacheCalls, witFailed, foldFailedAt, verifyOut, held, proverCalls,
          compressOut, keyCfg, numOut, keysOut, keyLog>>

mainVars == <<recursive_snark_option, recursive_snark, mainPc, i, result, started, ops,
              witSrc, foldFailedAt>>
prodVars == <<prodPc, prodIdx, parTask, cacheCalls, witFailed>>
inputVars == <<steps, z0, parallel>>
callerVars == <<held, proverCalls, compressOut>>
keyVars == <<keyCfg, numOut, keysOut, keyLog>>

NumSteps == Len(steps)
Idx == 0..(NumSteps - 1)
StepAt(k) == steps[k + 1]

-----------------------------------------------------------------------------
\* The step circuits and the folding library

\* Output of one step of shape pc on input z: Identity leaves the value
\* unchanged, Increment adds 1 (in the field).
StepOutput(pc, z) == <<(z[1] + pc) % FieldP>>

\* Self::z0_secondary()
Z0Secondary == <<0>>

\* RecursiveSNARK::new(&pp.pp, step, step, &secondary_circuit, z0_primary, &z0_secondary)
SnarkNew(step, z0p, z0s) ==
    [i |-> 0, z0 |-> z0p, zi |-> z0p, z0_secondary |-> z0s, zi_secondary |-> z0s,
     pcs |-> <<>>]

\* recursive_snark.prove_step(&pp.pp, step, &secondary_circuit)
SnarkProveStep(rs, step) ==
    [rs EXCEPT !.i = @ + 1, !.zi = StepOutput(step, @), !.pcs = Append(@, step)]

\* p.verify(&pp.pp, z0_primary, &z0_secondary): Err unless the proof is of at
\* least one step and is bound to the given initial inputs
SnarkVerify(rs, z0p, z0s) ==
    IF rs.i > 0 /\ rs.z0 = z0p /\ rs.z0_secondary = z0s
    THEN [ok |-> TRUE, zi_primary |-> rs.zi, zi_secondary |-> rs.zi_secondary]
    ELSE [ok |-> FALSE, zi_primary |-> <<>>, zi_secondary |-> <<>>]

\* CompressedSNARK::prove(&pp.pp, &pp.pk, recursive_snark): the succinct proof
\* attests the number of steps, the initial inputs and the outputs
CompressedProve(rs) ==
    [i |-> rs.i, z0 |-> rs.z0, zi |-> rs.zi, z0_secondary |-> rs.z0_secondary,
     zi_secondary |-> rs.zi_secondary]

\* p.verify(&pp.pp, &pp.vk, z0_primary, &z0_secondary) of a CompressedSNARK
CompressedVerify(cs, z0p, z0s) ==
    IF cs.i > 0 /\ cs.z0 = z0p /\ cs.z0_secondary = z0s
    THEN [ok |-> TRUE, zi_primary |-> cs.zi, zi_secondary |-> cs.zi_secondary]
    ELSE [ok |-> FALSE, zi_primary |-> <<>>, zi_secondary |-> <<>>]

-----------------------------------------------------------------------------
\* Helpers of prove_recursively

\* Mutant: .skip(0), the producer also takes the first step
SkipNone == 1 - 1

\* .skip(1) of both producer iterators
SkipFirst == 1

\* (mf.program_counter() == 0, Mutex::new(mf)) for every step
WrapSteps(s) == [k \in 1..Len(s) |-> s[k] = 0]

\* Mutant: the filter lets every step through
IsZeroPcAlways(k) == TRUE

\* |(is_zero_pc, _)| *is_zero_pc
IsZeroPc(k) == cc[k + 1]

\* Mutant: the second phase does not wait for the end of the first iterator
SeqIterExhaustedEarly == TRUE

\* for_each of the first iterator returns when the iterator is exhausted
SeqIterExhausted == prodIdx >= NumSteps

\* Mutant: a lock that never waits
LockNeverWaits(k) == TRUE

\* Mutex::lock returns once no thread holds the Mutex
LockFree(k) == holder[k] = "none"

\* Mutant: the loop advances by two
NextIndexSkips(k) == k + 2

\* for (i, ..) in ..iter().enumerate(): the index after k
NextIndex(k) == k + 1

\* Mutant: a fresh accumulator at every step
SnarkAlwaysNew(opt, step, z0p) == SnarkNew(step, z0p, Z0Secondary)

\* let mut recursive_snark = recursive_snark_option.clone().unwrap_or_else(|| new(..))
SnarkOrNew(opt, step, z0p) ==
    IF opt = <<>> THEN SnarkNew(step, z0p, Z0Secondary) ELSE opt[1]

\* Mutant: the result of the scope is dropped
ScopeIgnoresProducer(closurePanicked, producerPanicked) == closurePanicked

\* crossbeam::thread::scope(..).unwrap(): the scope has joined the spawned
\* thread; it resumes a panic of its closure and gives Err, which unwrap turns
\* into a panic, when the spawned thread panicked
ScopePanics(closurePanicked, producerPanicked) == closurePanicked \/ producerPanicked

Panic(m) == [tag |-> "Panic", msg |-> m]
OkProof(p) == [tag |-> "Ok", proof |-> p]
NoResult == [tag |-> "None"]

\* Mutant: verify without the comparison of zi
VerifyNoCompare(self, z0v, ziv) ==
    [tag |-> IF SnarkVerify(self.snark, z0v, Z0Secondary).ok THEN "Ok" ELSE "Err",
     value |-> SnarkVerify(self.snark, z0v, Z0Secondary).ok]

\* Mutant: the Compressed arm passes the secondary input as the primary one
SchemeVerifyMixedInputs(self, z0v) ==
    IF self.kind = "Recursive"
    THEN SnarkVerify(self.snark, z0v, Z0Secondary)
    ELSE CompressedVerify(self.snark, Z0Secondary, Z0Secondary)

\* match self { Recursive(p) => p.verify(..), Compressed(p, _) => p.verify(..) }
SchemeVerify(self, z0v) ==
    IF self.kind = "Recursive"
    THEN SnarkVerify(self.snark, z0v, Z0Secondary)
    ELSE CompressedVerify(self.snark, z0v, Z0Secondary)

\* Mutant: a failed scheme verification is reported as Ok(false)
VerifySwallowsError(self, z0v, ziv) ==
    LET v == SchemeVerify(self, z0v)
    IN  [tag |-> "Ok",
         value |-> (v.ok /\ ziv = v.zi_primary /\ Z0Secondary = v.zi_secondary)]

\* Proof::verify
Verify(self, z0v, ziv) ==
    LET v == SchemeVerify(self, z0v)
    IN  IF ~v.ok
        THEN [tag |-> "Err", value |-> FALSE]
        ELSE [tag |-> "Ok",
              value |-> (ziv = v.zi_primary /\ Z0Secondary = v.zi_secondary)]

\* Mutant: compress proves again whatever the form
NeedsProverAlways(self) == TRUE

\* Proof::compress, the arm taken: Recursive calls the prover
NeedsProver(self) == self.kind = "Recursive"

\* Proof::compress, its Ok value
Compress(self) ==
    IF NeedsProver(self)
    THEN [kind |-> "Compressed", snark |-> CompressedProve(self.snark)]
    ELSE self

-----------------------------------------------------------------------------
\* FoldingConfig and the circuit cache keys

IsPrime(n) == n > 1 /\ \A d \in 2..(n - 1) : n % d # 0

\* The modulus of the scalar field F, scaled down: the least prime above every
\* step size, as the field's prime is above every u64
KeyPrime ==
    CHOOSE p \in (MaxRc + 1)..(2 * MaxRc + 2) :
        IsPrime(p) /\ \A q \in (MaxRc + 1)..(p - 1) : ~IsPrime(q)

KeyField == 0..(KeyPrime - 1)

\* A Lang: its number of coprocessors, and the structural digest of each of
\* its circuits
Langs ==
    UNION {[coprocessor_count : {c}, digest : [0..c -> KeyField]] : c \in 0..MaxCoprocessors}

\* FoldingConfig::new_ivc, FoldingConfig::new_nivc
NewIvc(lang, rc) == [tag |-> "IVC", lang |-> lang, reduction_count |-> rc]
NewNivc(lang, rc) == [tag |-> "NIVC", lang |-> lang, reduction_count |-> rc]

\* Mutant: the circuit of the Lang itself is not counted
NumCircuitsNoBase(cfg) == IF cfg.tag = "IVC" THEN 1 ELSE cfg.lang.coprocessor_count

\* FoldingConfig::num_circuits
NumCircuits(cfg) == IF cfg.tag = "IVC" THEN 1 ELSE 1 + cfg.lang.coprocessor_count

\* The reduction count of the blank circuit built by circuit_cache_key
BlankReductionCount == 2

\* supernova::circuit_digest(&circuit, num_circuits) of the blank primary
\* circuit of index circuit_index
StructuralDigest(cfg, circuit_index, num_circuits) == cfg.lang.digest[circuit_index]

\* Mutant: the step size is narrowed before it enters the field
FromU64Narrowed(rc) == rc % 2

\* F::from(rc as u64)
FromU64(rc) == rc % KeyPrime

\* circuit_cache_key
CircuitCacheKey(rc, lang, circuit_index) ==
    LET folding_config == NewNivc(lang, BlankReductionCount)
        num_circuits == NumCircuits(folding_config)
    IN  (FromU64(rc) * StructuralDigest(folding_config, circuit_index, num_circuits))
            % KeyPrime

\* circuit_cache_keys
CircuitCacheKeys(rc, lang) ==
    LET num_circuits == lang.coprocessor_count + 1
    IN  [n \in 1..num_circuits |-> CircuitCacheKey(rc, lang, n - 1)]

-----------------------------------------------------------------------------
\* Initial states: every step sequence up to MaxSteps, every z0, both modes

StepSeqs == UNION {[1..n -> Shapes] : n \in 0..MaxSteps}

\* The state at the entry of prove_recursively
SessionStart ==
    /\ recursive_snark_option = <<>>
    /\ recursive_snark = <<>>
    /\ mainPc = "begin"
    /\ i = 0
    /\ cc = <<>>
    /\ holder = [k \in Idx |-> "none"]
    /\ poisoned = [k \in Idx |-> FALSE]
    /\ cached = [k \in Idx |-> FALSE]
    /\ prodPc = "unspawned"
    /\ prodIdx = 0
    /\ parTask = [k \in Idx |-> "none"]
    /\ result = NoResult
    /\ started = <<>>
    /\ ops = <<>>
    /\ witSrc = [k \in Idx |-> "none"]
    /\ cacheCalls = [k \in Idx |-> 0]
    /\ witFailed = {}
    /\ foldFailedAt = <<>>
    /\ verifyOut = <<>>
    /\ held = <<>>
    /\ proverCalls = 0
    /\ compressOut = <<>>

Init ==
    /\ steps \in StepSeqs
    /\ z0 \in {<<v>> : v \in Field}
    /\ parallel \in BOOLEAN
    /\ SessionStart
    /\ keyCfg = <<>>
    /\ numOut = <<>>
    /\ keysOut = <<>>
    /\ keyLog = <<>>

-----------------------------------------------------------------------------
\* The calling thread

\* Entry of prove_recursively up to the loop: in parallel mode the steps are
\* wrapped and the producer is spawned inside the scope
Begin ==
    /\ mainPc = "begin"
    /\ mainPc' = "loop"
    /\ IF parallel
       THEN /\ cc' = WrapSteps(steps)
            /\ prodPc' = "seq"
            /\ prodIdx' = SkipFirst
       ELSE UNCHANGED <<cc, prodPc, prodIdx>>
    /\ UNCHANGED <<inputVars, recursive_snark_option, recursive_snark, i, holder, poisoned,
                   cached, parTask, result, started, ops, witSrc, cacheCalls, witFailed,
                   foldFailedAt, verifyOut, callerVars, keyVars>>

\* for (i, step) in steps.iter().enumerate() { prove_step(i, step) }
SeqLoopStep ==
    /\ mainPc = "loop" /\ ~parallel /\ i < NumSteps
    /\ mainPc' = "prove_step"
    /\ UNCHANGED <<inputVars, recursive_snark_option, recursive_snark, i, cc, holder,
                   poisoned, cached, prodVars, result, started, ops, witSrc, foldFailedAt,
                   verifyOut, callerVars, keyVars>>

\* step.lock().unwrap() of the fold loop, on a Mutex that is not poisoned
ParLoopLock ==
    /\ mainPc = "loop" /\ parallel /\ i < NumSteps
    /\ LockFree(i) /\ ~poisoned[i]
    /\ holder' = [holder EXCEPT ![i] = "main"]
    /\ mainPc' = "prove_step"
    /\ UNCHANGED <<inputVars, recursive_snark_option, recursive_snark, i, cc, poisoned,
                   cached, prodVars, result, started, ops, witSrc, foldFailedAt, verifyOut, callerVars, keyVars>>

\* step.lock().unwrap() of the fold loop on a poisoned Mutex: the closure of
\* the scope panics, and the scope still joins the producer
ParLoopLockPoisoned ==
    /\ mainPc = "loop" /\ parallel /\ i < NumSteps
    /\ LockFree(i) /\ poisoned[i]
    /\ mainPc' = "unwinding"
    /\ UNCHANGED <<inputVars, recursive_snark_option, recursive_snark, i, cc, holder,
                   poisoned, cached, prodVars, result, started, ops, witSrc, foldFailedAt,
                   verifyOut, callerVars, keyVars>>

\* A panic of the calling thread inside prove_step: in parallel mode the guard
\* of step i is dropped while panicking, which poisons the Mutex
MainPanics(msg) ==
    /\ recursive_snark' = <<>>
    /\ foldFailedAt' = <<i>>
    /\ IF parallel
       THEN /\ mainPc' = "unwinding"
            /\ holder' = [holder EXCEPT ![i] = "none"]
            /\ poisoned' = [poisoned EXCEPT ![i] = TRUE]
            /\ UNCHANGED result
       ELSE /\ mainPc' = "done"
            /\ result' = Panic(msg)
            /\ UNCHANGED <<holder, poisoned>>

\* prove_step, first half: the accumulator is cloned, or constructed when
\* there is none yet (RecursiveSNARK::new(..).unwrap())
ProveStepEnter ==
    /\ mainPc = "prove_step"
    /\ started' = Append(started, i)
    /\ witSrc' = [witSrc EXCEPT ![i] = IF cached[i] THEN "cached" ELSE "inline"]
    /\ \/ /\ recursive_snark' = <<SnarkOrNew(recursive_snark_option, StepAt(i), z0)>>
          /\ ops' = IF recursive_snark_option = <<>> THEN Append(ops, <<"new", i>>) ELSE ops
          /\ mainPc' = "fold"
          /\ UNCHANGED <<holder, poisoned, result, foldFailedAt>>
       \/ /\ recursive_snark_option = <<>>
          /\ MainPanics("RecursiveSNARK::new")
          /\ UNCHANGED ops
    /\ UNCHANGED <<inputVars, recursive_snark_option, i, cc, cached, prodVars, verifyOut, callerVars, keyVars>>

\* prove_step, second half: recursive_snark.prove_step(..).unwrap(), the
\* accumulator is stored back, and (parallel mode) the guard is dropped
ProveStepFold ==
    /\ mainPc = "fold"
    /\ \/ /\ recursive_snark_option' = <<SnarkProveStep(recursive_snark[1], StepAt(i))>>
          /\ recursive_snark' = <<>>
          /\ ops' = Append(ops, <<"prove_step", i>>)
          /\ i' = NextIndex(i)
          /\ mainPc' = "loop"
          /\ holder' = IF parallel THEN [holder EXCEPT ![i] = "none"] ELSE holder
          /\ UNCHANGED <<poisoned, result, foldFailedAt>>
       \/ /\ MainPanics("prove_step")
          /\ UNCHANGED <<recursive_snark_option, ops, i>>
    /\ UNCHANGED <<inputVars, cc, cached, prodVars, started, witSrc, verifyOut, callerVars, keyVars>>

\* The loop has run out of steps
LoopExit ==
    /\ mainPc = "loop" /\ i >= NumSteps
    /\ mainPc' = IF parallel THEN "join" ELSE "return"
    /\ UNCHANGED <<inputVars, recursive_snark_option, recursive_snark, i, cc, holder,
                   poisoned, cached, prodVars, result, started, ops, witSrc, foldFailedAt,
                   verifyOut, callerVars, keyVars>>

\* Mutant: a scope that does not wait for the spawned thread
ProducerNeverAwaited == TRUE

\* The spawned closure has ended, normally or by a panic
ProducerTerminated == prodPc \in {"finished", "panicked"}

\* End of crossbeam::thread::scope(..).unwrap(): the spawned thread is joined
ScopeJoin ==
    /\ mainPc \in {"join", "unwinding"}
    /\ ProducerTerminated
    /\ IF ScopePanics(mainPc = "unwinding", prodPc = "panicked")
       THEN /\ mainPc' = "done"
            /\ result' = Panic("scope")
       ELSE /\ mainPc' = "return"
            /\ UNCHANGED result
    /\ UNCHANGED <<inputVars, recursive_snark_option, recursive_snark, i, cc, holder,
                   poisoned, cached, prodVars, started, ops, witSrc, foldFailedAt,
                   verifyOut, callerVars, keyVars>>

\* Ok(Self::Recursive(Box::new(recursive_snark_option.expect("RecursiveSNARK missing"))))
Return ==
    /\ mainPc = "return"
    /\ mainPc' = "done"
    /\ result' = IF recursive_snark_option = <<>>
                 THEN Panic("RecursiveSNARK missing")
                 ELSE OkProof([kind |-> "Recursive", snark |-> recursive_snark_option[1]])
    /\ held' = IF recursive_snark_option = <<>> THEN <<>> ELSE <<result'.proof>>
    /\ UNCHANGED <<inputVars, recursive_snark_option, recursive_snark, i, cc, holder,
                   poisoned, cached, prodVars, started, ops, witSrc, foldFailedAt,
                   verifyOut, proverCalls, compressOut, keyVars>>

-----------------------------------------------------------------------------
\* The producer thread, first phase: cc.iter().skip(1).filter(is_zero_pc)

\* The filter rejects a step whose program counter is not 0
SeqPhaseFilter ==
    /\ prodPc = "seq" /\ prodIdx < NumSteps
    /\ ~IsZeroPc(prodIdx)
    /\ prodIdx' = prodIdx + 1
    /\ UNCHANGED <<inputVars, mainVars, cc, holder, poisoned, cached, prodPc, parTask,
                   cacheCalls, witFailed, verifyOut, callerVars, keyVars>>

\* mf.lock().unwrap() on a Mutex that is not poisoned
SeqPhaseLock ==
    /\ prodPc = "seq" /\ prodIdx < NumSteps
    /\ IsZeroPc(prodIdx)
    /\ LockFree(prodIdx) /\ ~poisoned[prodIdx]
    /\ holder' = [holder EXCEPT ![prodIdx] = "seq"]
    /\ prodPc' = "seq_locked"
    /\ UNCHANGED <<inputVars, mainVars, cc, poisoned, cached, prodIdx, parTask, cacheCalls,
                   witFailed, verifyOut, callerVars, keyVars>>

\* mf.lock().unwrap() on a poisoned Mutex: the producer panics
SeqPhaseLockPoisoned ==
    /\ prodPc = "seq" /\ prodIdx < NumSteps
    /\ IsZeroPc(prodIdx)
    /\ LockFree(prodIdx) /\ poisoned[prodIdx]
    /\ prodPc' = "panicked"
    /\ UNCHANGED <<inputVars, mainVars, cc, holder, poisoned, cached, prodIdx, parTask,
                   cacheCalls, witFailed, verifyOut, callerVars, keyVars>>

\* .cache_witness(store).expect("witness caching failed"), then the guard is
\* dropped; on Err the thread panics with the guard held
SeqPhaseCache ==
    /\ prodPc = "seq_locked"
    /\ cacheCalls' = [cacheCalls EXCEPT ![prodIdx] = @ + 1]
    /\ holder' = [holder EXCEPT ![prodIdx] = "none"]
    /\ \/ /\ cached' = [cached EXCEPT ![prodIdx] = TRUE]
          /\ prodIdx' = prodIdx + 1
          /\ prodPc' = "seq"
          /\ UNCHANGED <<poisoned, witFailed>>
       \/ /\ poisoned' = [poisoned EXCEPT ![prodIdx] = TRUE]
          /\ witFailed' = witFailed \cup {prodIdx}
          /\ prodPc' = "panicked"
          /\ UNCHANGED <<cached, prodIdx>>
    /\ UNCHANGED <<inputVars, mainVars, cc, parTask, verifyOut, callerVars, keyVars>>

\* The first iterator is exhausted; cc.par_iter().skip(1).filter(!is_zero_pc)
\* hands one job per remaining step to the worker pool
SeqPhaseEnd ==
    /\ prodPc = "seq" /\ SeqIterExhausted
    /\ prodPc' = "par"
    /\ parTask' = [k \in Idx |-> IF k >= SkipFirst /\ ~IsZeroPc(k) THEN "todo" ELSE "none"]
    /\ UNCHANGED <<inputVars, mainVars, cc, holder, poisoned, cached, prodIdx, cacheCalls,
                   witFailed, verifyOut, callerVars, keyVars>>

-----------------------------------------------------------------------------
\* The producer thread, second phase: the jobs of the worker pool

ActiveTasks == {k \in Idx : parTask[k] \in {"waiting", "locked"}}

\* A worker takes the job of step k and calls mf.lock()
ParWorkerPick(k) ==
    /\ prodPc = "par" /\ parTask[k] = "todo"
    /\ Cardinality(ActiveTasks) < NumWorkers
    /\ parTask' = [parTask EXCEPT ![k] = "waiting"]
    /\ UNCHANGED <<inputVars, mainVars, cc, holder, poisoned, cached, prodPc, prodIdx,
                   cacheCalls, witFailed, verifyOut, callerVars, keyVars>>

\* mf.lock().unwrap() of a worker, on a Mutex that is not poisoned
ParWorkerLock(k) ==
    /\ prodPc = "par" /\ parTask[k] = "waiting"
    /\ LockFree(k) /\ ~poisoned[k]
    /\ holder' = [holder EXCEPT ![k] = "worker"]
    /\ parTask' = [parTask EXCEPT ![k] = "locked"]
    /\ UNCHANGED <<inputVars, mainVars, cc, poisoned, cached, prodPc, prodIdx, cacheCalls,
                   witFailed, verifyOut, callerVars, keyVars>>

\* mf.lock().unwrap() of a worker on a poisoned Mutex: the job panics
ParWorkerLockPoisoned(k) ==
    /\ prodPc = "par" /\ parTask[k] = "waiting"
    /\ LockFree(k) /\ poisoned[k]
    /\ parTask' = [parTask EXCEPT ![k] = "panicked"]
    /\ UNCHANGED <<inputVars, mainVars, cc, holder, poisoned, cached, prodPc, prodIdx,
                   cacheCalls, witFailed, verifyOut, callerVars, keyVars>>

\* .cache_witness(store).expect("witness caching failed") of a worker
ParWorkerCache(k) ==
    /\ prodPc = "par" /\ parTask[k] = "locked"
    /\ cacheCalls' = [cacheCalls EXCEPT ![k] = @ + 1]
    /\ holder' = [holder EXCEPT ![k] = "none"]
    /\ \/ /\ cached' = [cached EXCEPT ![k] = TRUE]
          /\ parTask' = [parTask EXCEPT ![k] = "done"]
          /\ UNCHANGED <<poisoned, witFailed>>
       \/ /\ poisoned' = [poisoned EXCEPT ![k] = TRUE]
          /\ witFailed' = witFailed \cup {k}
          /\ parTask' = [parTask EXCEPT ![k] = "panicked"]
          /\ UNCHANGED cached
    /\ UNCHANGED <<inputVars, mainVars, cc, prodPc, prodIdx, verifyOut, callerVars, keyVars>>

\* for_each returns once no job runs: normally when every job is done; after
\* a job panicked the pool may drop jobs not yet taken, and for_each resumes
\* the panic in the producer thread
ParPhaseEnd ==
    /\ prodPc = "par"
    /\ ActiveTasks = {}
    /\ LET panicked == \E k \in Idx : parTask[k] = "panicked"
       IN  /\ panicked \/ \A k \in Idx : parTask[k] # "todo"
           /\ prodPc' = IF panicked THEN "panicked" ELSE "finished"
    /\ UNCHANGED <<inputVars, mainVars, cc, holder, poisoned, cached, prodIdx, parTask,
                   cacheCalls, witFailed, verifyOut, callerVars, keyVars>>

-----------------------------------------------------------------------------
\* The caller verifies the proof it was given

VerifyCall(z0v, ziv) ==
    /\ mainPc = "done" /\ held # <<>>
    /\ verifyOut' = <<[z0 |-> z0v, zi |-> ziv, kind |-> held[1].kind,
                       scheme |-> SchemeVerify(held[1], z0v).ok,
                       attested |-> SchemeVerify(held[1], z0v).zi_primary,
                       res |-> Verify(held[1], z0v, ziv)]>>
    /\ UNCHANGED <<inputVars, mainVars, cc, holder, poisoned, cached, prodVars, callerVars,
                   keyVars>>

\* The caller compresses the proof it owns: compress takes self by value, so
\* after an Err the caller owns no proof
CompressCall ==
    /\ mainPc = "done" /\ held # <<>>
    /\ LET self == held[1]
           prover == NeedsProver(self)
       IN  /\ proverCalls' = IF prover THEN proverCalls + 1 ELSE proverCalls
           /\ \/ /\ held' = <<Compress(self)>>
                 /\ compressOut' = <<[before |-> self, tag |-> "Ok",
                                      after |-> Compress(self), prover |-> prover]>>
              \/ /\ prover
                 /\ held' = <<>>
                 /\ compressOut' = <<[before |-> self, tag |-> "Err",
                                      after |-> self, prover |-> prover]>>
    /\ UNCHANGED <<inputVars, mainVars, cc, holder, poisoned, cached, prodVars, verifyOut,
                   keyVars>>

-----------------------------------------------------------------------------
\* Calls of num_circuits, circuit_cache_key and circuit_cache_keys on a
\* FoldingConfig (no proving session runs)

sessionVars == <<inputVars, mainVars, cc, holder, poisoned, cached, prodVars, verifyOut,
                 callerVars>>

InitKeys ==
    /\ steps = <<>>
    /\ z0 = <<0>>
    /\ parallel = FALSE
    /\ SessionStart
    /\ \E lang \in Langs, rc \in 0..MaxRc :
          keyCfg \in {<<NewIvc(lang, rc)>>, <<NewNivc(lang, rc)>>}
    /\ numOut = <<>>
    /\ keysOut = <<>>
    /\ keyLog = <<>>

CallNumCircuits ==
    /\ numOut' = <<NumCircuits(keyCfg[1])>>
    /\ UNCHANGED <<sessionVars, keyCfg, keysOut, keyLog>>

CallCircuitCacheKeys ==
    /\ keysOut' = <<CircuitCacheKeys(keyCfg[1].reduction_count, keyCfg[1].lang)>>
    /\ UNCHANGED <<sessionVars, keyCfg, numOut, keyLog>>

\* keyLog keeps the last two calls
CallCircuitCacheKey(rc, circuit_index) ==
    /\ keyLog' = (IF keyLog = <<>> THEN <<>> ELSE <<keyLog[Len(keyLog)]>>)
                    \o <<[rc |-> rc, index |-> circuit_index,
                          key |-> CircuitCacheKey(rc, keyCfg[1].lang, circuit_index)]>>
    /\ UNCHANGED <<sessionVars, keyCfg, numOut, keysOut>>

NextKeys ==
    \/ CallNumCircuits
    \/ CallCircuitCacheKeys
    \/ \E rc \in 0..MaxRc, n \in 0..keyCfg[1].lang.coprocessor_count :
            CallCircuitCacheKey(rc, n)

SpecKeys == InitKeys /\ [][NextKeys]_vars

-----------------------------------------------------------------------------
Next ==
    \/ Begin
    \/ SeqLoopStep
    \/ ParLoopLock
    \/ ParLoopLockPoisoned
    \/ ProveStepEnter
    \/ ProveStepFold
    \/ LoopExit
    \/ ScopeJoin
    \/ Return
    \/ SeqPhaseFilter
    \/ SeqPhaseLock
    \/ SeqPhaseLockPoisoned
    \/ SeqPhaseCache
    \/ SeqPhaseEnd
    \/ \E k \in Idx : ParWorkerPick(k)
    \/ \E k \in Idx : ParWorkerLock(k)
    \/ \E k \in Idx : ParWorkerLockPoisoned(k)
    \/ \E k \in Idx : ParWorkerCache(k)
    \/ ParPhaseEnd
    \/ \E v \in Field, w \in Field : VerifyCall(<<v>>, <<w>>)
    \/ CompressCall

Spec == Init /\ [][Next]_vars

\* The steps of the calling thread and of the producer (its own thread and the
\* jobs it hands to the worker pool); each is an operating-system thread that
\* runs whenever it is not blocked
MainNext ==
    \/ Begin
    \/ SeqLoopStep
    \/ ParLoopLock
    \/ ParLoopLockPoisoned
    \/ ProveStepEnter
    \/ ProveStepFold
    \/ LoopExit
    \/ ScopeJoin
    \/ Return

ProducerNext ==
    \/ SeqPhaseFilter
    \/ SeqPhaseLock
    \/ SeqPhaseLockPoisoned
    \/ SeqPhaseCache
    \/ SeqPhaseEnd
    \/ \E k \in Idx : ParWorkerPick(k)
    \/ \E k \in Idx : ParWorkerLock(k)
    \/ \E k \in Idx : ParWorkerLockPoisoned(k)
    \/ \E k \in Idx : ParWorkerCache(k)
    \/ ParPhaseEnd

FairSpec == Init /\ [][Next]_vars /\ WF_vars(MainNext) /\ WF_vars(ProducerNext)

-----------------------------------------------------------------------------
\* Definitions used by the properties

\* <<0, 1, ..., n-1>>
UpTo(n) == [k \in 1..n |-> k - 1]

\* The indices folded so far, in the order of their folds
RECURSIVE FoldedOf(_)
FoldedOf(o) ==
    IF o = <<>> THEN <<>>
    ELSE IF o[1][1] = "prove_step" THEN <<o[1][2]>> \o FoldedOf(Tail(o))
    ELSE FoldedOf(Tail(o))

Folded == FoldedOf(ops)

DoneOk == mainPc = "done" /\ result.tag = "Ok"

MainHolds == parallel /\ mainPc \in {"prove_step", "fold"}

\* The producer (first phase, or the job of step k) holds the cell of step k
ProducerHolds(k) ==
    \/ prodPc = "seq_locked" /\ prodIdx = k
    \/ parTask[k] = "locked"

\* The producer is at mf.lock() of step k and the cell is held
SeqBlockedOn(k) ==
    /\ prodPc = "seq" /\ prodIdx = k /\ k < NumSteps
    /\ IsZeroPc(k) /\ ~LockFree(k)

WorkerBlockedOn(k) == prodPc = "par" /\ parTask[k] = "waiting" /\ ~LockFree(k)

ProducerBlockedOn(k) == SeqBlockedOn(k) \/ WorkerBlockedOn(k)

\* The run with caching disabled, as a function of its inputs: one
\* construction from step 0, then one fold per step in index order
RECURSIVE FoldFrom(_, _)
FoldFrom(rs, k) ==
    IF k >= NumSteps THEN rs ELSE FoldFrom(SnarkProveStep(rs, StepAt(k)), k + 1)

SequentialAccumulator == FoldFrom(SnarkNew(StepAt(0), z0, Z0Secondary), 0)

SequentialOps == <<(<<"new", 0>>)>> \o [k \in 1..NumSteps |-> <<"prove_step", k - 1>>]

\* The output of the steps applied in order to z
RECURSIVE ApplySteps(_, _)
ApplySteps(s, z) == IF s = <<>> THEN z ELSE ApplySteps(Tail(s), StepOutput(Head(s), z))

-----------------------------------------------------------------------------
\* C1: in both modes and under every interleaving, prove_step is entered for
\* the indices 0, 1, 2, ... in that order, each once; the fold of an index is
\* entered only when the folds of all smaller indices have completed; and a
\* run that returns a proof has folded exactly 0 .. n-1.
C1_FoldOrder ==
    /\ started = UpTo(Len(started))
    /\ Folded = UpTo(Len(Folded))
    /\ Len(Folded) <= Len(started) /\ Len(started) <= Len(Folded) + 1
    /\ (mainPc \in {"prove_step", "fold"} => Len(Folded) = i)
    /\ (DoneOk => NumSteps >= 1 /\ Folded = UpTo(NumSteps))

C1_Witness ==
    /\ parallel /\ DoneOk /\ NumSteps >= 3
    /\ \E k \in Idx : witSrc[k] = "cached"
    /\ \E k \in Idx : k >= 1 /\ witSrc[k] = "inline"

\* C2: a failure-free run, with caching enabled or disabled and whatever the
\* interleaving, performs the operations of the sequential run (one
\* construction from step 0, one fold per step in index order) and returns
\* the accumulator of the sequential run.
C2_SchedulingEquivalence ==
    DoneOk =>
        /\ ops = SequentialOps
        /\ result.proof = [kind |-> "Recursive", snark |-> SequentialAccumulator]

C2_Witness ==
    /\ parallel /\ DoneOk /\ NumSteps >= 3
    /\ \E k \in Idx : witSrc[k] = "cached"
    /\ \E k \in Idx : k >= 1 /\ cached[k] /\ witSrc[k] = "inline"

\* C3 as stated: whenever the fold loop holds the cell of a step i >= 1, the
\* producer has already cached the witness of that step.
C3_Original == (MainHolds /\ i >= 1) => cached[i]

\* C3 amended: while the fold loop holds the cell of a step i >= 1 the
\* producer does not hold it; the witness is cached exactly when the producer
\* completed cache_witness on the step before the fold loop acquired the cell,
\* and otherwise the fold loop computes it itself (the cache is not filled
\* during the fold).
C3_Amended ==
    (MainHolds /\ i >= 1) =>
        /\ holder[i] = "main"
        /\ ~ProducerHolds(i)
        /\ cached[i] <=> (cacheCalls[i] = 1 /\ i \notin witFailed)
        /\ (mainPc = "fold" => (witSrc[i] = "cached" <=> cached[i]))
        /\ (mainPc = "fold" /\ witSrc[i] = "inline" => cacheCalls[i] = 0)

C3_Witness ==
    /\ MainHolds /\ mainPc = "fold" /\ i >= 2
    /\ witSrc[i] = "inline"
    /\ witSrc[i - 1] = "cached"

\* C4 as stated: the producer is never blocked on a cell the fold loop holds.
C4_Original == \A k \in Idx : ~(ProducerBlockedOn(k) /\ holder[k] = "main")

\* C4 amended: the producer can be blocked on a cell the fold loop holds, but
\* only on the cell of the step being folded, whose index is >= 1; the fold
\* loop is then inside prove_step (not itself waiting), and the first phase
\* holds no cell while it waits.
C4_Amended ==
    \A k \in Idx :
        (ProducerBlockedOn(k) /\ holder[k] = "main") =>
            /\ k = i /\ k >= 1
            /\ mainPc \in {"prove_step", "fold"}
            /\ (SeqBlockedOn(k) => \A j \in Idx : holder[j] # "seq")

C4_Witness ==
    /\ \E k \in Idx : SeqBlockedOn(k) /\ holder[k] = "main"
    /\ \E k \in Idx : cached[k]

\* C5: in parallel mode the producer never acquires the cell of step 0 and
\* never caches its witness, whatever its shape selector; the fold loop never
\* waits for the cell of step 0 and computes the witness of step 0 itself.
C5_StepZeroNotCached ==
    (parallel /\ NumSteps >= 1) =>
        /\ cacheCalls[0] = 0 /\ ~cached[0]
        /\ ~ProducerHolds(0) /\ ~ProducerBlockedOn(0)
        /\ holder[0] \in {"none", "main"}
        /\ (mainPc = "loop" /\ i = 0 => LockFree(0) /\ ~poisoned[0])
        /\ (Len(started) >= 1 => witSrc[0] = "inline")

C5_Witness ==
    /\ parallel /\ DoneOk /\ NumSteps >= 2
    /\ StepAt(0) = 0 /\ StepAt(1) = 0
    /\ cached[1] /\ witSrc[0] = "inline"

\* C6: once cache_witness has failed for a step, prove_recursively never
\* returns a proof, and cache_witness is never called twice on a step.
C6_CacheFailureFatal ==
    /\ (witFailed # {} => result.tag # "Ok" /\ mainPc # "return")
    /\ \A k \in Idx : cacheCalls[k] <= 1

C6_Witness ==
    /\ witFailed # {} /\ mainPc = "done"
    /\ Folded = UpTo(NumSteps)
    /\ result.tag = "Panic"

\* C7 as stated: after a failure of cache_witness the caller is given an error
\* value (WitnessCacheError), not a panic.
C7_Claim ==
    (witFailed # {} /\ mainPc = "done") =>
        result = [tag |-> "Err", kind |-> "WitnessCacheError"]

\* C8 as stated: when the folding scheme rejects step i the caller is given a
\* FoldError naming i, no later step is folded and step i is not retried.
C8_Claim ==
    /\ (foldFailedAt # <<>> /\ mainPc = "done") =>
          result = [tag |-> "Err", kind |-> "FoldError", step |-> foldFailedAt[1]]
    /\ (foldFailedAt # <<>> =>
          /\ Len(started) = foldFailedAt[1] + 1
          /\ Len(Folded) = foldFailedAt[1])

\* C9 as stated: an empty step sequence is rejected with an error value
\* returned to the caller, never with an Ok proof.
C9_Claim ==
    (NumSteps = 0 /\ mainPc = "done") =>
        /\ result.tag = "Err"
        /\ result.tag # "Ok"

\* C10: verify of the returned proof against the session's z0 gives Ok(true)
\* when the claimed zi is the output of the steps applied in order to z0, and
\* Ok(false) for every other zi.
C10_RoundTrip ==
    (verifyOut # <<>> /\ verifyOut[1].z0 = z0) =>
        verifyOut[1].res =
            [tag |-> "Ok", value |-> (verifyOut[1].zi = ApplySteps(steps, z0))]

C10_Witness ==
    /\ steps = <<0, 1, 0>> /\ z0 = <<0>>
    /\ verifyOut # <<>>
    /\ verifyOut[1].z0 = <<0>> /\ verifyOut[1].zi = <<1>>
    /\ verifyOut[1].res.value

-----------------------------------------------------------------------------
\* C11: compress of a Compressed proof returns Ok with that same proof and
\* does not call the prover; a successful compress of a Recursive proof gives
\* a Compressed proof; so compress after compress changes nothing, and over
\* any sequence of compress calls the prover is called at most once.
C11_CompressIdempotent ==
    /\ proverCalls <= 1
    /\ compressOut # <<>> =>
        LET c == compressOut[1]
        IN  /\ (c.before.kind = "Compressed" =>
                    c.tag = "Ok" /\ c.after = c.before /\ ~c.prover)
            /\ (c.before.kind = "Recursive" =>
                    c.prover /\ (c.tag = "Ok" => c.after.kind = "Compressed"))
            /\ (c.tag = "Ok" => held = <<c.after>> /\ Compress(c.after) = c.after)

C11_Witness ==
    /\ compressOut # <<>>
    /\ compressOut[1].before.kind = "Compressed"
    /\ compressOut[1].tag = "Ok"
    /\ proverCalls = 1

\* C12: for both forms of proof, verify returns an error exactly when the
\* scheme's own verification fails, and Ok(false) when that verification
\* succeeds and the claimed zi differs from the attested output.
C12_ErrorVersusFalse ==
    verifyOut # <<>> =>
        LET v == verifyOut[1]
        IN  /\ (~v.scheme => v.res.tag = "Err")
            /\ (v.scheme /\ v.zi # v.attested => v.res = [tag |-> "Ok", value |-> FALSE])
            /\ (v.scheme => v.res.tag = "Ok")

C12_Witness ==
    /\ verifyOut # <<>>
    /\ verifyOut[1].kind = "Compressed"
    /\ ~verifyOut[1].scheme
    /\ verifyOut[1].res.tag = "Err"
    /\ NumSteps >= 2

\* C15: verify of the compressed proof gives, for every z0 and claimed zi,
\* what verify of the accumulator it was compressed from gives (true, false
\* or error).
C15_CompressionFaithful ==
    (verifyOut # <<>> /\ verifyOut[1].kind = "Compressed") =>
        /\ result.proof.kind = "Recursive"
        /\ held = <<Compress(result.proof)>>
        /\ verifyOut[1].res = Verify(result.proof, verifyOut[1].z0, verifyOut[1].zi)

C15_Witness ==
    /\ verifyOut # <<>> /\ verifyOut[1].kind = "Compressed"
    /\ verifyOut[1].res = [tag |-> "Ok", value |-> TRUE]
    /\ steps = <<0, 1, 0>> /\ parallel

\* C16: one accumulator per session: none exists until step 0 constructs it
\* (from step 0 and z0, the first operation), no later step constructs one,
\* the fold of step i works on the accumulator left by step i-1, and the
\* accumulator after k folds is that of the first k steps.
C16_SingleAccumulator ==
    /\ (recursive_snark_option = <<>>) <=> (Len(Folded) = 0)
    /\ Cardinality({n \in 1..Len(ops) : ops[n][1] = "new"}) <= 1
    /\ (ops # <<>> => ops[1] = <<"new", 0>>)
    /\ (recursive_snark_option # <<>> =>
            /\ recursive_snark_option[1].i = Len(Folded)
            /\ recursive_snark_option[1].z0 = z0
            /\ recursive_snark_option[1].pcs = SubSeq(steps, 1, Len(Folded)))
    /\ (mainPc = "fold" =>
            recursive_snark[1] = IF i = 0
                                 THEN SnarkNew(StepAt(0), z0, Z0Secondary)
                                 ELSE recursive_snark_option[1])
    /\ (mainPc = "return" /\ recursive_snark_option # <<>>
            => recursive_snark_option[1].i = NumSteps)
    /\ (DoneOk => result.proof.snark = recursive_snark_option[1])

C16_Witness ==
    /\ parallel /\ mainPc = "fold" /\ i = 2
    /\ recursive_snark_option # <<>>
    /\ recursive_snark_option[1].i = 2

\* The holder of every cell is the thread whose position says it holds it
HoldersConsistent ==
    /\ (MainHolds => holder[i] = "main")
    /\ (prodPc = "seq_locked" => holder[prodIdx] = "seq")
    /\ \A k \in Idx :
        /\ (parTask[k] = "locked" => holder[k] = "worker")
        /\ (holder[k] = "main" => MainHolds /\ k = i)
        /\ (holder[k] = "seq" => prodPc = "seq_locked" /\ k = prodIdx)
        /\ (holder[k] = "worker" => parTask[k] = "locked")

\* A step's witness is written or read by the holder of its cell only, and the
\* accumulator is changed inside prove_step only
AccessByHolder ==
    /\ \A k \in Idx :
        /\ (cached'[k] # cached[k] => holder[k] \in {"seq", "worker"} /\ ProducerHolds(k))
        /\ (parallel /\ witSrc'[k] # witSrc[k] => holder[k] = "main" /\ k = i)
    /\ (recursive_snark_option' # recursive_snark_option => mainPc = "fold")
    /\ (recursive_snark' # recursive_snark => mainPc \in {"prove_step", "fold"})

\* C17: in parallel mode every cell is held by at most one of the fold loop,
\* the producer's first phase and the jobs of its second phase; a witness is
\* read or written only by the thread that holds its cell; the accumulator is
\* changed by the fold loop only.
C17_MutualExclusion == []HoldersConsistent /\ [][AccessByHolder]_vars

C17_Witness ==
    /\ \E k \in Idx : holder[k] = "main"
    /\ \E k \in Idx : holder[k] = "worker"
    /\ \E k \in Idx : WorkerBlockedOn(k) /\ holder[k] = "main"

\* The steps of the default shape that the producer is to cache
DefaultIdx == {k \in Idx : k >= 1 /\ StepAt(k) = 0}

\* C18: when a parallel-mode run returns its proof, cache_witness has been
\* called exactly once on each step 1 .. n-1 and never on step 0: by the
\* first phase (no job of the second) for the steps of selector 0, by a job of
\* the second phase for the others; the classification made when the steps
\* were wrapped is that of the steps' selectors and does not change.
C18_PartitionComplete ==
    /\ (parallel /\ mainPc # "begin" => cc = WrapSteps(steps))
    /\ (parallel /\ DoneOk) =>
        \A k \in Idx :
            /\ (k = 0 => cacheCalls[k] = 0 /\ parTask[k] = "none")
            /\ (k >= 1 /\ StepAt(k) = 0 =>
                    cacheCalls[k] = 1 /\ cached[k] /\ parTask[k] = "none")
            /\ (k >= 1 /\ StepAt(k) # 0 =>
                    cacheCalls[k] = 1 /\ cached[k] /\ parTask[k] = "done")

C18_Witness ==
    /\ parallel /\ DoneOk
    /\ steps = <<1, 0, 1>>
    /\ witSrc[1] = "inline" /\ witSrc[2] = "cached"

\* C19: the first phase caches the default-shape steps of index >= 1 one at a
\* time in increasing index order, and no job of the second phase exists, and
\* no other step is cached, until cache_witness has completed on every one of
\* them; the fold loop can therefore hold a non-default step on which the
\* producer has not started.
C19_PhasesSequenced ==
    (parallel /\ prodPc # "unspawned") =>
        /\ (prodPc \in {"seq", "seq_locked"} =>
                /\ \A k \in Idx : parTask[k] = "none"
                /\ \A k \in Idx : StepAt(k) # 0 => cacheCalls[k] = 0
                /\ \A k \in DefaultIdx : cacheCalls[k] = IF k < prodIdx THEN 1 ELSE 0
                /\ Cardinality({k \in Idx : holder[k] = "seq"}) <= 1)
        /\ ((\E k \in Idx : parTask[k] # "none" \/ (StepAt(k) # 0 /\ cacheCalls[k] > 0)) =>
                \A k \in DefaultIdx : cacheCalls[k] = 1 /\ cached[k])

C19_Witness ==
    /\ MainHolds /\ i >= 1 /\ StepAt(i) # 0
    /\ prodPc \in {"seq", "seq_locked"}
    /\ parTask[i] = "none" /\ cacheCalls[i] = 0
    /\ \E k \in DefaultIdx : k > i /\ ~cached[k]

-----------------------------------------------------------------------------
\* Properties of the FoldingConfig and of the cache keys (under SpecKeys)

\* C13: num_circuits() is 1 for an IVC config whatever the number of
\* coprocessors and 1 + that number for an NIVC config; circuit_cache_keys
\* holds one key per circuit index 0 .. coprocessor count, in index order,
\* the key of index n being the step size times the digest of circuit n.
C13_NumCircuits ==
    LET cfg == keyCfg[1]
        c == cfg.lang.coprocessor_count
    IN  /\ (numOut # <<>> => numOut[1] = IF cfg.tag = "IVC" THEN 1 ELSE 1 + c)
        /\ (keysOut # <<>> =>
                /\ Len(keysOut[1]) = 1 + c
                /\ \A n \in 0..c :
                    keysOut[1][n + 1] =
                        (cfg.reduction_count * cfg.lang.digest[n]) % KeyPrime)

C13_Witness ==
    /\ keyCfg[1].tag = "IVC" /\ keyCfg[1].lang.coprocessor_count >= 1
    /\ numOut = <<1>>
    /\ keysOut # <<>> /\ Len(keysOut[1]) = 1 + keyCfg[1].lang.coprocessor_count
    /\ keysOut[1][1] # keysOut[1][2]

\* C14 as stated: two calls of circuit_cache_key for the same circuit index
\* and different step sizes give different keys.
C14_Original ==
    \A a \in 1..Len(keyLog), b \in 1..Len(keyLog) :
        (keyLog[a].index = keyLog[b].index /\ keyLog[a].rc # keyLog[b].rc) =>
            keyLog[a].key # keyLog[b].key

\* C14 amended: they give different keys when the structural digest of that
\* circuit is not the zero of the field (the key is the product of the step
\* size and the digest, so a zero digest gives the key 0 for every step size).
C14_Amended ==
    \A a \in 1..Len(keyLog), b \in 1..Len(keyLog) :
        LET d == keyCfg[1].lang.digest[keyLog[a].index]
        IN  /\ (keyLog[a].index = keyLog[b].index /\ keyLog[a].rc # keyLog[b].rc /\ d # 0) =>
                    keyLog[a].key # keyLog[b].key
            /\ (d = 0 => keyLog[a].key = 0)

C14_Witness ==
    /\ Len(keyLog) = 2
    /\ keyLog[1].index = keyLog[2].index /\ keyLog[1].index >= 1
    /\ keyLog[1].rc = 1 /\ keyLog[2].rc = MaxRc
    /\ keyCfg[1].lang.digest[keyLog[1].index] # 0
    /\ keyLog[1].key # keyLog[2].key

-----------------------------------------------------------------------------
\* Termination (under FairSpec)

NoFailure == witFailed = {} /\ foldFailedAt = <<>>

\* No thread holds two cells, a failure-free session that has not returned
\* can take a step, and prove_recursively is past the scope only when the
\* producer has terminated
TerminationSafety ==
    /\ Cardinality({k \in Idx : holder[k] = "main"}) <= 1
    /\ Cardinality({k \in Idx : holder[k] = "seq"}) <= 1
    /\ Cardinality({k \in Idx : holder[k] = "worker"}) <= NumWorkers
    /\ \A k \in Idx : holder[k] = "worker" => parTask[k] = "locked"
    /\ (NoFailure /\ NumSteps >= 1 /\ mainPc # "done" => ENABLED (MainNext \/ ProducerNext))
    /\ (parallel /\ mainPc \in {"return", "done"} => prodPc \in {"finished", "panicked"})

\* C20: in parallel mode, for a non-empty step sequence with no failing
\* witness computation or fold: no thread holds more than one cell, no
\* deadlock is reachable, prove_recursively eventually returns its proof, and
\* it returns only after the producer has terminated.
C20_Termination ==
    /\ []TerminationSafety
    /\ (parallel /\ NumSteps >= 1 /\ []NoFailure) => <>DoneOk

C20_Witness ==
    /\ parallel /\ NoFailure /\ NumSteps >= 2
    /\ mainPc = "join" /\ prodPc = "par"
    /\ Folded = UpTo(NumSteps)
    /\ \E k \in Idx : parTask[k] = "locked"

====
